---- MODULE Spec2Model ----
(***************************************************************************)
(* Model of src/pfeffel/clean.py: the persistence orchestration of         *)
(* create_clean_data and the command-line dispatch of main.                *)
(*                                                                         *)
(* The state is the output directory (whether it exists, and the files in  *)
(* it), the wall clock, and the position and locals of the invocation in   *)
(* progress.  Every file records which invocation wrote it (field "run"),  *)
(* the serialisation used and the object serialised.                       *)
(***************************************************************************)
EXTENDS Integers, Sequences, FiniteSets, TLC

VARIABLES
    now,                        \* the wall clock at its last reading by datetime.now()
    bikefolder,                 \* what the raw CSV folder holds (as the loader sees it)
    dirExists,                  \* output_dir exists on disk
    files,                      \* file name in output_dir -> content
    console,                    \* lines printed by the invocation in progress
    pc,                         \* position of the invocation in progress
    run,                        \* number of invocations started so far
    clockRead,                  \* run -> <<the datetime _timestamp() formatted>>, or <<>>
    write_parquet, timestamp_output, only_stations_pickle,
    df, station_id_to_names, ts,
    pickle_fpath, parquet_fpath, station_map_fpath,
    station_map_pickle_fpath, station_names_pickle_fpath,
    serializable_station_map,
    result

args == <<write_parquet, timestamp_output, only_stations_pickle>>
paths == <<pickle_fpath, parquet_fpath, station_map_fpath,
           station_map_pickle_fpath, station_names_pickle_fpath>>
locals == <<df, station_id_to_names, ts, serializable_station_map, result>>
disk == <<dirExists, files>>
vars == <<now, bikefolder, disk, console, pc, run, clockRead,
          args, paths, locals>>

----------------------------------------------------------------------------
(* Bounds *)

MaxRuns == 2        \* invocations in one behaviour
MaxMinute == 1      \* the clock runs over minutes 0..MaxMinute
MaxSecond == 1      \* and seconds 0..MaxSecond within each minute
MaxStation == 1     \* station identifiers 1..MaxStation
MaxName == 2        \* station names, by rank in Python's str order: 1..MaxName

None == "None"

----------------------------------------------------------------------------
(* Pure helpers *)

Two(n) == IF n < 10 THEN "0" \o ToString(n) ELSE ToString(n)

\* strftime("%Y%m%d_%H%M"): the seconds of the datetime are dropped.
strftime(t) == "20250101_00" \o Two(t.minute)

\* the timestamp with the minutes left out of the format ("%Y%m%d_%H")
_timestamp_hour(t) == "20250101_00"

_timestamp(t) == strftime(t)

\* every datetime the clock can show, and every timestamp string
Datetimes == [minute : 0..MaxMinute, second : 0..MaxSecond]
Timestamps == {_timestamp(t) : t \in Datetimes}

\* os.path.join(output_dir, name): one output directory, so a path is its name.
join(name) == name

\* f"<stem>_{ts}.<ext>" if ts else "<stem>.<ext>"
base_name(stem, t, ext) ==
    IF t # None THEN stem \o "_" \o t \o "." \o ext ELSE stem \o "." \o ext

Min(S) == CHOOSE x \in S : \A y \in S : x <= y

Max(S) == CHOOSE x \in S : \A y \in S : x >= y

\* sorted(list(v), reverse=True)
RECURSIVE sorted_reversed(_)
sorted_reversed(v) ==
    IF v = {} THEN <<>>
    ELSE LET m == Max(v) IN <<m>> \o sorted_reversed(v \ {m})

\* sorted(list(v)): the elements of the set v in ascending order
RECURSIVE sorted(_)
sorted(v) ==
    IF v = {} THEN <<>>
    ELSE LET m == Min(v) IN <<m>> \o sorted(v \ {m})

\* int(k) of an integer station identifier
int(k) == k

\* {int(k): sorted(list(v)) for k, v in station_id_to_names.items()}
serializable(m) ==
    [k \in {int(j) : j \in DOMAIN m} |->
        sorted(m[CHOOSE j \in DOMAIN m : int(j) = k])]

\* json.dump writes the keys of an object as strings
json_dump(m) ==
    [s \in {ToString(k) : k \in DOMAIN m} |->
        m[CHOOSE k \in DOMAIN m : ToString(k) = s]]

\* the loader: a cleaned table and the station-id -> set-of-names mapping
StationMaps ==
    UNION {[K -> (SUBSET (1..MaxName)) \ {{}}] : K \in SUBSET (1..MaxStation)}

load_clean_data(folder) == <<[table |-> "trips", of |-> folder], folder>>

\* writing a file creates it or replaces its content
Put(f, path, fmt, obj) ==
    [n \in DOMAIN f \cup {path} |->
        IF n = path THEN [run |-> run, fmt |-> fmt, obj |-> obj] ELSE f[n]]

print(line) == console' = Append(console, line)

----------------------------------------------------------------------------
(* Initial state: no invocation yet; the output directory may or may not   *)
(* exist and holds no file.                                                *)

InitRest ==
    /\ now = [minute |-> 0, second |-> 0]
    /\ dirExists \in BOOLEAN
    /\ files = <<>>
    /\ console = <<>>
    /\ pc = "idle"
    /\ run = 0
    /\ clockRead = <<>>
    /\ write_parquet = FALSE
    /\ timestamp_output = FALSE
    /\ only_stations_pickle = FALSE
    /\ df = None
    /\ station_id_to_names = None
    /\ ts = None
    /\ pickle_fpath = None
    /\ parquet_fpath = None
    /\ station_map_fpath = None
    /\ station_map_pickle_fpath = None
    /\ station_names_pickle_fpath = None
    /\ serializable_station_map = None
    /\ result = None

\* the folders the orchestration is run on: one without stations, and one
\* where every station has every name
Folders == {<<>>, [k \in 1..MaxStation |-> 1..MaxName]}

Init == bikefolder \in Folders /\ InitRest

\* every folder within the bounds
InitAnyFolder == bikefolder \in StationMaps /\ InitRest

\* the locals of a fresh invocation
Fresh ==
    /\ console' = <<>>
    /\ run' = run + 1
    /\ clockRead' = Append(clockRead, <<>>)
    /\ df' = None
    /\ station_id_to_names' = None
    /\ ts' = None
    /\ pickle_fpath' = None
    /\ parquet_fpath' = None
    /\ station_map_fpath' = None
    /\ station_map_pickle_fpath' = None
    /\ station_names_pickle_fpath' = None
    /\ serializable_station_map' = None
    /\ result' = None

Ended == pc \in {"idle", "done", "raised"}

----------------------------------------------------------------------------
(* Entry points *)

\* lines 26-38: create_clean_data is called
Call(wp, to) ==
    /\ Ended
    /\ run < MaxRuns
    /\ write_parquet' = wp
    /\ timestamp_output' = to
    /\ only_stations_pickle' = FALSE
    /\ pc' = "load"
    /\ Fresh
    /\ UNCHANGED <<now, bikefolder, disk>>

create_clean_data == \E wp \in BOOLEAN, to \in BOOLEAN : Call(wp, to)

\* lines 131-190 and 218-225: main parses the flags and dispatches
main ==
    \E wp \in BOOLEAN, to \in BOOLEAN, osp \in BOOLEAN :
        IF osp
        THEN /\ Ended
             /\ run < MaxRuns
             /\ write_parquet' = wp
             /\ timestamp_output' = to
             /\ only_stations_pickle' = TRUE
             /\ pc' = "stations_load"
             /\ Fresh
             /\ UNCHANGED <<now, bikefolder, disk>>
        ELSE Call(wp, to)

----------------------------------------------------------------------------
(* create_clean_data, step by step *)

\* lines 39-42: load the raw trips
Load ==
    /\ pc = "load"
    /\ print(<<"Loading raw trips">>)
    /\ df' = load_clean_data(bikefolder)[1]
    /\ station_id_to_names' = load_clean_data(bikefolder)[2]
    /\ pc' = "ensure_dir"
    /\ UNCHANGED <<now, bikefolder, disk, run, clockRead, args, paths,
                   ts, serializable_station_map, result>>

\* lines 22-23: os.makedirs(path, exist_ok=True)
_ensure_dir == dirExists' = TRUE

\* line 44
EnsureDir ==
    /\ pc = "ensure_dir"
    /\ _ensure_dir
    /\ pc' = "name"
    /\ UNCHANGED <<now, bikefolder, files, console, run, clockRead,
                   args, paths, locals>>

\* datetime.now(): a reading not earlier than the last one
Readings == {t \in Datetimes :
                \/ t.minute > now.minute
                \/ t.minute = now.minute /\ t.second >= now.second}

\* the timestamp taken whatever the flag says
ReadTimestamp_always(t) ==
    /\ ts' = _timestamp(t)
    /\ now' = t
    /\ clockRead' = [clockRead EXCEPT ![run] = <<t>>]

\* ts = _timestamp() if timestamp_output else None, with the clock showing t
ReadTimestamp(t) ==
    /\ ts' = IF timestamp_output THEN _timestamp(t) ELSE None
    /\ now' = IF timestamp_output THEN t ELSE now
    /\ clockRead' = IF timestamp_output
                    THEN [clockRead EXCEPT ![run] = <<t>>] ELSE clockRead

\* lines 46-68: the timestamp and the five primary paths
NamePaths ==
    /\ pc = "name"
    /\ \E t \in Readings : ReadTimestamp(t)
    /\ pickle_fpath' = join(base_name("cleaned_data", ts', "pickle"))
    /\ parquet_fpath' = join(base_name("cleaned_data", ts', "parquet"))
    /\ station_map_fpath' = join(base_name("station_id_to_names", ts', "json"))
    /\ station_map_pickle_fpath' =
           join(base_name("station_id_to_names", ts', "pickle"))
    /\ station_names_pickle_fpath' =
           join(base_name("station_names", ts', "pickle"))
    /\ pc' = "pickle"
    /\ UNCHANGED <<bikefolder, disk, console, run, args,
                   df, station_id_to_names, serializable_station_map, result>>

\* lines 70-71: df.to_pickle(pickle_fpath)
WritePickle ==
    /\ pc = "pickle"
    /\ IF dirExists
       THEN /\ print(<<"Writing pickle", pickle_fpath>>)
            /\ files' = Put(files, pickle_fpath, "pickle", df)
            /\ pc' = "parquet"
       ELSE /\ pc' = "raised"
            /\ UNCHANGED <<files, console>>
    /\ UNCHANGED <<now, bikefolder, dirExists, run, clockRead, args,
                   paths, locals>>

\* the parquet copy whose failure leaves parquet_fpath set
WriteParquet_keeps_path ==
    /\ pc = "parquet"
    /\ IF write_parquet
       THEN \E ok \in BOOLEAN :
              IF ok /\ dirExists
              THEN /\ print(<<"Writing parquet", parquet_fpath>>)
                   /\ files' = Put(files, parquet_fpath, "parquet", df)
                   /\ UNCHANGED parquet_fpath
              ELSE /\ console' = console \o <<<<"Writing parquet", parquet_fpath>>,
                                             <<"Failed to write parquet">>>>
                   /\ UNCHANGED <<files, parquet_fpath>>
       ELSE /\ parquet_fpath' = None
            /\ UNCHANGED <<files, console>>
    /\ pc' = "station_maps"
    /\ UNCHANGED <<now, bikefolder, dirExists, run, clockRead, args,
                   pickle_fpath, station_map_fpath, station_map_pickle_fpath,
                   station_names_pickle_fpath, locals>>

\* lines 73-85: the optional parquet copy; a failure is caught
WriteParquet ==
    /\ pc = "parquet"
    /\ IF write_parquet
       THEN \E ok \in BOOLEAN :
              IF ok /\ dirExists
              THEN /\ print(<<"Writing parquet", parquet_fpath>>)
                   /\ files' = Put(files, parquet_fpath, "parquet", df)
                   /\ UNCHANGED parquet_fpath
              ELSE /\ console' = console \o <<<<"Writing parquet", parquet_fpath>>,
                                             <<"Failed to write parquet">>>>
                   /\ parquet_fpath' = None
                   /\ UNCHANGED files
       ELSE /\ parquet_fpath' = None
            /\ UNCHANGED <<files, console>>
    /\ pc' = "station_maps"
    /\ UNCHANGED <<now, bikefolder, dirExists, run, clockRead, args,
                   pickle_fpath, station_map_fpath, station_map_pickle_fpath,
                   station_names_pickle_fpath, locals>>

\* lines 87-99: the station mapping as JSON, as pickle, and set-valued
WriteStationMaps ==
    /\ pc = "station_maps"
    /\ serializable_station_map' = serializable(station_id_to_names)
    /\ IF dirExists
       THEN /\ console' = console \o
                   <<<<"Writing station ID->names map", station_map_fpath>>,
                     <<"Writing station ID->names pickle", station_map_pickle_fpath>>,
                     <<"Writing raw station names pickle", station_names_pickle_fpath>>>>
            /\ files' =
                 Put(Put(Put(files,
                     station_map_fpath, "json",
                         json_dump(serializable_station_map')),
                     station_map_pickle_fpath, "pickle",
                         serializable_station_map'),
                     station_names_pickle_fpath, "pickle", station_id_to_names)
            /\ pc' = "latest_pickle"
       ELSE /\ pc' = "raised"
            /\ UNCHANGED <<files, console>>
    /\ UNCHANGED <<now, bikefolder, dirExists, run, clockRead, args,
                   paths, df, station_id_to_names, ts, result>>

\* lines 102, 107, 117-119: the names of the "latest" copies
latest_pickle == join("cleaned_data_latest.pickle")
latest_parquet == join("cleaned_data_latest.parquet")
latest_station_map == join("station_id_to_names.json")
latest_station_map_pickle == join("station_id_to_names_latest.pickle")
latest_station_names_pickle == join("station_names_latest.pickle")

\* the latest pickle written only when there is none yet
WriteLatestPickle_if_missing ==
    /\ pc = "latest_pickle"
    /\ IF dirExists
       THEN /\ print(<<"Writing latest pickle", latest_pickle>>)
            /\ files' = IF latest_pickle \in DOMAIN files THEN files
                        ELSE Put(files, latest_pickle, "pickle", df)
            /\ pc' = "latest_parquet"
       ELSE /\ pc' = "raised"
            /\ UNCHANGED <<files, console>>
    /\ UNCHANGED <<now, bikefolder, dirExists, run, clockRead, args,
                   paths, locals>>

\* lines 101-104
WriteLatestPickle ==
    /\ pc = "latest_pickle"
    /\ IF dirExists
       THEN /\ print(<<"Writing latest pickle", latest_pickle>>)
            /\ files' = Put(files, latest_pickle, "pickle", df)
            /\ pc' = "latest_parquet"
       ELSE /\ pc' = "raised"
            /\ UNCHANGED <<files, console>>
    /\ UNCHANGED <<now, bikefolder, dirExists, run, clockRead, args,
                   paths, locals>>

\* the latest parquet copy attempted whether or not the primary one succeeded
WriteLatestParquet_unconditional ==
    /\ pc = "latest_parquet"
    /\ IF write_parquet
       THEN \E ok \in BOOLEAN :
              IF ok /\ dirExists
              THEN /\ print(<<"Writing latest parquet", latest_parquet>>)
                   /\ files' = Put(files, latest_parquet, "parquet", df)
              ELSE /\ console' = console \o
                          <<<<"Writing latest parquet", latest_parquet>>,
                            <<"Failed to write latest parquet">>>>
                   /\ UNCHANGED files
       ELSE UNCHANGED <<files, console>>
    /\ pc' = "latest_station_maps"
    /\ UNCHANGED <<now, bikefolder, dirExists, run, clockRead, args,
                   paths, locals>>

\* lines 106-115: the latest parquet copy; a failure is caught
WriteLatestParquet ==
    /\ pc = "latest_parquet"
    /\ IF write_parquet /\ parquet_fpath # None
       THEN \E ok \in BOOLEAN :
              IF ok /\ dirExists
              THEN /\ print(<<"Writing latest parquet", latest_parquet>>)
                   /\ files' = Put(files, latest_parquet, "parquet", df)
              ELSE /\ console' = console \o
                          <<<<"Writing latest parquet", latest_parquet>>,
                            <<"Failed to write latest parquet">>>>
                   /\ UNCHANGED files
       ELSE UNCHANGED <<files, console>>
    /\ pc' = "latest_station_maps"
    /\ UNCHANGED <<now, bikefolder, dirExists, run, clockRead, args,
                   paths, locals>>

\* lines 117-126
WriteLatestStationMaps ==
    /\ pc = "latest_station_maps"
    /\ IF dirExists
       THEN /\ console' = console \o
                   <<<<"Writing latest station map", latest_station_map>>,
                     <<"Writing latest station map pickle", latest_station_map_pickle>>,
                     <<"Writing latest raw station names pickle",
                       latest_station_names_pickle>>>>
            /\ files' =
                 Put(Put(Put(files,
                     latest_station_map, "json",
                         json_dump(serializable_station_map)),
                     latest_station_map_pickle, "pickle",
                         serializable_station_map),
                     latest_station_names_pickle, "pickle", station_id_to_names)
            /\ pc' = "return"
       ELSE /\ pc' = "raised"
            /\ UNCHANGED <<files, console>>
    /\ UNCHANGED <<now, bikefolder, dirExists, run, clockRead, args,
                   paths, locals>>

\* line 128: return pickle_fpath, parquet_fpath, station_map_fpath
Return ==
    /\ pc = "return"
    /\ result' = <<pickle_fpath, parquet_fpath, station_map_fpath>>
    /\ pc' = "done"
    /\ UNCHANGED <<now, bikefolder, disk, console, run, clockRead,
                   args, paths, df, station_id_to_names, ts,
                   serializable_station_map>>

----------------------------------------------------------------------------
(* main with --only-stations-pickle, lines 190-216 *)

\* lines 192-195
StationsLoad ==
    /\ pc = "stations_load"
    /\ print(<<"Building only station names pickles">>)
    /\ station_id_to_names' = load_clean_data(bikefolder)[2]
    /\ pc' = "stations_name"
    /\ UNCHANGED <<now, bikefolder, disk, run, clockRead, args, paths,
                   df, ts, serializable_station_map, result>>

\* lines 197-206
StationsNamePaths ==
    /\ pc = "stations_name"
    /\ \E t \in Readings : ReadTimestamp(t)
    /\ station_names_pickle_fpath' =
           join(base_name("station_names", ts', "pickle"))
    /\ pc' = "stations_primary"
    /\ UNCHANGED <<bikefolder, disk, console, run, args,
                   pickle_fpath, parquet_fpath, station_map_fpath,
                   station_map_pickle_fpath,
                   df, station_id_to_names, serializable_station_map, result>>

\* lines 208-211: pd.to_pickle raises when the directory is missing
StationsWritePrimary ==
    /\ pc = "stations_primary"
    /\ IF dirExists
       THEN /\ print(<<"Writing raw station names pickle", station_names_pickle_fpath>>)
            /\ files' = Put(files, station_names_pickle_fpath, "pickle",
                            station_id_to_names)
            /\ pc' = "stations_latest"
       ELSE /\ print(<<"Writing raw station names pickle", station_names_pickle_fpath>>)
            /\ pc' = "raised"
            /\ UNCHANGED files
    /\ UNCHANGED <<now, bikefolder, dirExists, run, clockRead, args,
                   paths, locals>>

\* lines 212-216
StationsWriteLatest ==
    /\ pc = "stations_latest"
    /\ IF dirExists
       THEN /\ print(<<"Writing latest raw station names pickle",
                       latest_station_names_pickle>>)
            /\ files' = Put(files, latest_station_names_pickle, "pickle",
                            station_id_to_names)
            /\ pc' = "done"
       ELSE /\ pc' = "raised"
            /\ UNCHANGED <<files, console>>
    /\ UNCHANGED <<now, bikefolder, dirExists, run, clockRead, args,
                   paths, locals>>

----------------------------------------------------------------------------
(* Specifications *)

Steps ==
    \/ Load \/ EnsureDir \/ NamePaths \/ WritePickle \/ WriteParquet
    \/ WriteStationMaps \/ WriteLatestPickle \/ WriteLatestParquet
    \/ WriteLatestStationMaps \/ Return

StationsSteps ==
    \/ StationsLoad \/ StationsNamePaths \/ StationsWritePrimary
    \/ StationsWriteLatest

\* the program as the command line and the library expose it
Next == main \/ Steps \/ StationsSteps

Spec == Init /\ [][Next]_vars

\* runs of create_clean_data only
NextCreate == create_clean_data \/ Steps

SpecCreate == Init /\ [][NextCreate]_vars

\* one run of create_clean_data on any folder within the bounds
FirstCall == run = 0 /\ create_clean_data

NextSerialize == FirstCall \/ Steps

SpecSerialize == InitAnyFolder /\ [][NextSerialize]_vars

----------------------------------------------------------------------------
(* Vocabulary of the properties *)

\* the files the invocation in progress (or the last one) has written
WrittenNow == {n \in DOMAIN files : files[n].run = run}

Printed(line) == \E i \in 1..Len(console) : console[i] = line

LineOf(line) == CHOOSE i \in 1..Len(console) : console[i] = line

Stems == {"cleaned_data", "station_id_to_names", "station_names"}
Exts == {"pickle", "parquet", "json"}

\* the five artifacts of a run
Artifacts ==
    {<<"cleaned_data", "pickle">>, <<"cleaned_data", "parquet">>,
     <<"station_id_to_names", "json">>, <<"station_id_to_names", "pickle">>,
     <<"station_names", "pickle">>}

\* '<artifact>_latest.<ext>'
LatestOf(stem, ext) == stem \o "_latest." \o ext

\* a name of the form *_latest.*
LatestNamed(n) == \E stem \in Stems, ext \in Exts : n = LatestOf(stem, ext)

\* a name that carries a timestamp suffix
Timestamped(n) ==
    \E stem \in Stems, t \in Timestamps, ext \in Exts : n = base_name(stem, t, ext)

\* a run of create_clean_data has returned
Completed == pc = "done" /\ ~only_stations_pickle

\* the name the primary parquet copy of this run has or would have had
PrimaryParquet == join(base_name("cleaned_data", ts, "parquet"))

\* the "latest" copies create_clean_data writes whatever the parquet outcome
LatestCopies ==
    {latest_pickle, latest_station_map, latest_station_map_pickle,
     latest_station_names_pickle}

----------------------------------------------------------------------------
(* C1: in a run of create_clean_data with write_parquet requested, a       *)
(* failure of the primary parquet write is caught: the run does not abort, *)
(* it returns, the primary and latest cleaned-data pickles and the primary *)
(* and latest station-mapping files (JSON, sorted-list pickle, set-valued  *)
(* pickle) are all written, and the second element of the result is None.  *)
C1_ParquetFailureTolerated ==
    /\ ~only_stations_pickle => pc # "raised"
    /\ (Completed /\ write_parquet /\ PrimaryParquet \notin WrittenNow) =>
        /\ {pickle_fpath, station_map_fpath, station_map_pickle_fpath,
            station_names_pickle_fpath} \subseteq WrittenNow
        /\ LatestCopies \subseteq WrittenNow
        /\ files[pickle_fpath].obj = df
        /\ files[latest_pickle].obj = df
        /\ files[station_map_pickle_fpath].obj = serializable_station_map
        /\ files[latest_station_map_pickle].obj = serializable_station_map
        /\ files[station_names_pickle_fpath].obj = station_id_to_names
        /\ files[latest_station_names_pickle].obj = station_id_to_names
        /\ files[station_map_fpath].fmt = "json"
        /\ files[latest_station_map].fmt = "json"
        /\ result[2] = None

C1_Witness ==
    /\ Completed
    /\ write_parquet
    /\ Printed(<<"Failed to write parquet">>)
    /\ PrimaryParquet \notin WrittenNow
    /\ latest_station_names_pickle \in WrittenNow
    /\ result[2] = None

(* C2: after every completed run of create_clean_data, every artifact      *)
(* written under its primary name has '<artifact>_latest.<ext>' written in *)
(* the same run.                                                           *)
C2_EveryPrimaryHasLatest ==
    Completed =>
        \A a \in Artifacts :
            join(base_name(a[1], ts, a[2])) \in WrittenNow
                => join(LatestOf(a[1], a[2])) \in WrittenNow

C4_OnlyLatestWritten ==
    (pc = "done" /\ ~timestamp_output) =>
        \A n \in WrittenNow : LatestNamed(n)

(* C5: a run of main with --only-stations-pickle writes exactly two files, *)
(* the primary station_names pickle and station_names_latest.pickle, both  *)
(* holding the set-valued mapping of the loader, and no other file.        *)
C5_StationsOnlyWritesTwo ==
    (only_stations_pickle /\ pc \in {"done", "raised"}) =>
        /\ WrittenNow = {station_names_pickle_fpath, latest_station_names_pickle}
        /\ \A n \in WrittenNow :
            files[n].fmt = "pickle" /\ files[n].obj = station_id_to_names

(* C6: the mapping create_clean_data serialises to JSON has the key set of *)
(* the loader's mapping (each key coerced to an integer) and, for each     *)
(* key, the names of that key's set in ascending order, none lost,         *)
(* repeated or added.                                                      *)
C6_SerializableMatchesMapping ==
    (~only_stations_pickle /\
     pc \in {"latest_pickle", "latest_parquet", "latest_station_maps",
             "return", "done"}) =>
        /\ DOMAIN serializable_station_map =
               {int(k) : k \in DOMAIN station_id_to_names}
        /\ \A k \in DOMAIN station_id_to_names :
            LET l == serializable_station_map[int(k)] IN
                /\ {l[i] : i \in 1..Len(l)} = station_id_to_names[k]
                /\ Len(l) = Cardinality(station_id_to_names[k])
                /\ \A i \in 1..(Len(l) - 1) : l[i] < l[i + 1]
        /\ DOMAIN files[station_map_fpath].obj =
               {ToString(int(k)) : k \in DOMAIN station_id_to_names}
        /\ \A k \in DOMAIN station_id_to_names :
            files[station_map_fpath].obj[ToString(int(k))] =
                serializable_station_map[int(k)]

C6_Witness ==
    /\ Completed
    /\ \E k \in DOMAIN station_id_to_names :
        /\ Cardinality(station_id_to_names[k]) >= 2
        /\ Len(serializable_station_map[int(k)]) >= 2
        /\ files[station_map_fpath].obj[ToString(int(k))][1]
               = Min(station_id_to_names[k])

(* C7 as written: in every run of create_clean_data with write_parquet     *)
(* requested, a write of cleaned_data_latest.parquet is attempted, whether *)
(* the primary parquet write succeeded or failed.                          *)
C7_LatestParquetAlwaysAttempted ==
    (Completed /\ write_parquet) =>
        Printed(<<"Writing latest parquet", latest_parquet>>)

(* C7 amended: a write of cleaned_data_latest.parquet is attempted exactly *)
(* when write_parquet is requested and the primary parquet write           *)
(* succeeded; it comes after the primary copies, and its failure is caught *)
(* so that the remaining latest files are still written.                   *)
C7_LatestParquetAfterPrimarySuccess ==
    Completed =>
        /\ Printed(<<"Writing latest parquet", latest_parquet>>)
               <=> (write_parquet /\ PrimaryParquet \in WrittenNow)
        /\ Printed(<<"Writing latest parquet", latest_parquet>>) =>
               LineOf(<<"Writing latest parquet", latest_parquet>>) >
               LineOf(<<"Writing raw station names pickle",
                        station_names_pickle_fpath>>)
        /\ Printed(<<"Failed to write latest parquet">>) =>
               /\ latest_parquet \notin WrittenNow
               /\ {latest_station_map, latest_station_map_pickle,
                   latest_station_names_pickle} \subseteq WrittenNow

C7_Witness ==
    /\ Completed
    /\ PrimaryParquet \in WrittenNow
    /\ Printed(<<"Failed to write latest parquet">>)
    /\ latest_station_names_pickle \in WrittenNow

(* C8 as written: after any sequence of completed create_clean_data runs,  *)
(* every *_latest.* file in the directory holds the data of the most       *)
(* recent run.                                                             *)
C8_NoStaleLatest ==
    Completed =>
        \A n \in DOMAIN files : LatestNamed(n) => files[n].run = run

(* C8 amended: after any sequence of completed create_clean_data runs,     *)
(* every *_latest.* file other than cleaned_data_latest.parquet exists and *)
(* holds the data of the most recent run; cleaned_data_latest.parquet does *)
(* so exactly when that run requested parquet and both of its parquet      *)
(* writes succeeded, and otherwise keeps what an earlier run left.         *)
C8_LatestCurrentExceptParquet ==
    Completed =>
        /\ {latest_pickle, latest_station_map_pickle,
            latest_station_names_pickle} \subseteq DOMAIN files
        /\ \A n \in DOMAIN files :
            (LatestNamed(n) /\ n # latest_parquet) => files[n].run = run
        /\ files[latest_pickle].obj = df
        /\ files[latest_station_map_pickle].obj = serializable_station_map
        /\ files[latest_station_names_pickle].obj = station_id_to_names
        /\ latest_parquet \in WrittenNow
               <=> /\ write_parquet
                   /\ PrimaryParquet \in WrittenNow
                   /\ ~Printed(<<"Failed to write latest parquet">>)

C8_Witness ==
    /\ Completed
    /\ run = 2
    /\ latest_parquet \in DOMAIN files
    /\ files[latest_parquet].run = 1
    /\ files[latest_pickle].run = 2

(* C9: in every run mode, a missing output directory is created before the *)
(* first artifact write, and no error is raised.                           *)
C9_DirectoryEnsured ==
    /\ pc # "raised"
    /\ pc \in {"stations_primary", "stations_latest", "pickle", "parquet",
               "station_maps", "latest_pickle", "latest_parquet",
               "latest_station_maps"} => dirExists

(* C10 as written: no timestamped file of an earlier run is overwritten by *)
(* a later run.                                                            *)
C10_TimestampedNeverOverwritten ==
    [][\A n \in DOMAIN files :
          Timestamped(n) => files'[n].run = files[n].run]_vars

(* C10 amended: timestamped names are unique per wall-clock minute: a      *)
(* timestamped file is overwritten by a later run only when both runs read *)
(* the clock in the same minute; runs in different minutes write different *)
(* timestamped names.                                                      *)
C10_OverwrittenOnlyWithinMinute ==
    [][\A n \in DOMAIN files :
          (files'[n].run # files[n].run /\ Timestamped(n)) =>
              clockRead'[files[n].run][1].minute
                  = clockRead'[files'[n].run][1].minute]_vars

C10_Witness ==
    /\ run = 2
    /\ pc = "done"
    /\ clockRead[1] # <<>>
    /\ clockRead[2] # <<>>
    /\ clockRead[1][1].minute = clockRead[2][1].minute
    /\ clockRead[1][1].second # clockRead[2][1].second
    /\ files[station_names_pickle_fpath].run = 2

====
